---- MODULE Spec2Model ----
(***************************************************************************)
(* openrelik-worker-timesketch: the get-or-create-sketch protocol of       *)
(* src/tasks.py (get_or_create_sketch) and the upload task that drives it. *)
(*                                                                         *)
(* Collaborators (the Timesketch API client, the Redis lock, the import    *)
(* streamer) are modelled by what the code observes of them: a call's      *)
(* result, or the exception it raises.                                     *)
(***************************************************************************)
EXTENDS Integers, Sequences, FiniteSets, TLC

\* ------------------------------------------------------------------ bounds
\* Sketches that exist on the server before any worker starts.
MaxInitSketches == 2
\* Remote calls that may fail (raise, or return no handle) in one behaviour.
MaxFaults == 1
\* Input files handed to one upload task.
MaxFiles == 2

\* --------------------------------------------------------- program constants
\* redis_client.lock(sketch_name, timeout=60, blocking_timeout=5)
LOCK_TIMEOUT == 60
BLOCKING_TIMEOUT == 5

\* ------------------------------------------------------------------ domains
Workers == {"w1", "w2"}
WorkflowIds == {"7", "8"}

\* A text value is a sequence of one-character strings; <<>> is the empty
\* text and stands for None as well (both are falsy to `if sketch_id:`).
NoText == <<>>
NoName == ""

\* A sketch handle; NoSketch is Python's None (falsy).
NoSketch == [id |-> 0, name |-> NoName]
NoHolder == "nobody"
OtherHolder == "other-process"
NoError == [type |-> "", parts |-> <<>>]

\* ------------------------------------------------------------ pure functions
\* Line 63 without the placeholder: one name for every workflow.
DefaultName_NoWorkflow(workflow_id) == "openrelik-workflow-"

\* f"openrelik-workflow-{workflow_id}"
DefaultName(workflow_id) == "openrelik-workflow-" \o workflow_id

\* Names a caller may give a sketch: an ordinary one, and one that collides with
\* a workflow's default name.
SketchNames == {"Case42", DefaultName("7")}

\* The arguments get_or_create_sketch is called with: an id (found, padded,
\* unknown, not a number), an id together with a name, a name, or neither.
IdArgs ==
  {[sketch_id |-> id, sketch_name |-> NoName, workflow_id |-> "7"] :
     id \in {<<"1">>, <<"9">>, <<"x">>}}
  \cup {[sketch_id |-> <<"0", "1">>, sketch_name |-> "Case42", workflow_id |-> "7"]}
NameArgs ==
  {[sketch_id |-> NoText, sketch_name |-> nm, workflow_id |-> "7"] : nm \in SketchNames}
DefaultArgs(wfs) ==
  {[sketch_id |-> NoText, sketch_name |-> NoName, workflow_id |-> wf] : wf \in wfs}
CallArgs == IdArgs \cup NameArgs \cup DefaultArgs({"7"})

LockNames == {DefaultName(wf) : wf \in WorkflowIds}

Digits == [c \in {"0", "1", "2", "3", "4", "5", "6", "7", "8", "9"} |->
             CASE c = "0" -> 0 [] c = "1" -> 1 [] c = "2" -> 2 [] c = "3" -> 3
               [] c = "4" -> 4 [] c = "5" -> 5 [] c = "6" -> 6 [] c = "7" -> 7
               [] c = "8" -> 8 [] c = "9" -> 9]

\* int(sketch_id) is defined on non-empty digit texts, raises ValueError otherwise.
IsIntText(t) == Len(t) > 0 /\ \A i \in 1..Len(t) : t[i] \in DOMAIN Digits

RECURSIVE ParseInt(_)
ParseInt(t) == IF t = <<>> THEN 0
               ELSE 10 * ParseInt(SubSeq(t, 1, Len(t) - 1)) + Digits[t[Len(t)]]

\* str() of a text value, for messages.
RECURSIVE Render(_)
Render(t) == IF t = <<>> THEN "" ELSE t[1] \o Render(Tail(t))

\* str() of a non-negative int, as an f-string formats sketch.id.
DigitChars == <<"0", "1", "2", "3", "4", "5", "6", "7", "8", "9">>
RECURSIVE IntStr(_)
IntStr(n) == IF n < 10 THEN DigitChars[n + 1]
             ELSE IntStr(n \div 10) \o DigitChars[(n % 10) + 1]

\* str() of a name that may be None.
NameStr(n) == IF n = NoName THEN "None" ELSE n

\* Truthiness, as `if sketch_id:` / `elif sketch_name:` / `if not sketch:` see it.
TruthyText(t) == t # NoText
TruthyName(n) == n # NoName
TruthySketch(s) == s # NoSketch

\* Mutants of Branch: the name is looked at before the id; the elif is missing.
Branch_NameFirst(sketch_id, sketch_name) ==
  IF TruthyName(sketch_name) THEN "create_named"
  ELSE IF TruthyText(sketch_id) THEN "get"
  ELSE "acquire"
Branch_NoElif(sketch_id, sketch_name) ==
  IF TruthyText(sketch_id) THEN "get" ELSE "acquire"

\* The branch get_or_create_sketch takes (lines 58, 60, 62).
Branch(sketch_id, sketch_name) ==
  IF TruthyText(sketch_id) THEN "get"
  ELSE IF TruthyName(sketch_name) THEN "create_named"
  ELSE "acquire"

\* Mutants of FirstMatch: the comparison never succeeds; the loop has no break.
FirstMatch_NeverFound(listing, name) == NoSketch
RECURSIVE FirstMatch_NoBreak(_, _)
FirstMatch_NoBreak(listing, name) ==
  IF listing = <<>> THEN NoSketch
  ELSE IF listing[Len(listing)].name = name THEN listing[Len(listing)]
  ELSE FirstMatch_NoBreak(SubSeq(listing, 1, Len(listing) - 1), name)

\* for _sketch in list: if _sketch.name == sketch_name: sketch = _sketch; break
RECURSIVE FirstMatch(_, _)
FirstMatch(listing, name) ==
  IF listing = <<>> THEN NoSketch
  ELSE IF Head(listing).name = name THEN Head(listing)
  ELSE FirstMatch(Tail(listing), name)

\* The server's lookup by id: the handle, or None when there is no such sketch.
Lookup(all, id) ==
  IF \E i \in 1..Len(all) : all[i].id = id
  THEN all[CHOOSE i \in 1..Len(all) : all[i].id = id]
  ELSE NoSketch

\* The server's list after a new sketch has been placed at position p.
InsertAt(all, p, s) == SubSeq(all, 1, p - 1) \o <<s>> \o SubSeq(all, p, Len(all))

\* The environment variables upload requires, in the order it checks them.
EnvVars == <<"TIMESKETCH_SERVER_URL", "TIMESKETCH_SERVER_PUBLIC_URL",
             "TIMESKETCH_USERNAME", "TIMESKETCH_PASSWORD">>
EnvValue == [v \in {EnvVars[i] : i \in 1..4} |->
               CASE v = "TIMESKETCH_SERVER_URL" -> "http://ts:5000"
                 [] v = "TIMESKETCH_SERVER_PUBLIC_URL" -> "https://ts.example"
                 [] v = "TIMESKETCH_USERNAME" -> "admin"
                 [] v = "TIMESKETCH_PASSWORD" -> "secret"]
\* os.environ: every subset of the variables may be unset (or empty).
Environs ==
  {[v \in DOMAIN EnvValue |-> IF v \in unset THEN "" ELSE EnvValue[v]] :
     unset \in SUBSET (DOMAIN EnvValue)}

\* task_config; make_sketch_public is "absent" when the key is not there.
TaskConfigs ==
  [sketch_id : {NoText, <<"1">>, <<"9">>},
   sketch_name : {NoName, "Case42"},
   timeline_name : {NoName, "TL"},
   make_sketch_public : {"absent", "true", "false"}]

File(i) == [path |-> "/in/" \o IntStr(i) \o ".plaso", display_name |-> "file" \o IntStr(i)]
InputFiles == {[i \in 1..n |-> File(i)] : n \in 0..MaxFiles}

\* -------------------------------------------------------------------- state
VARIABLES
  sketches,   \* the server's sketches, in the order list_sketches() yields them
  lock,       \* the Redis lock of each name: its holder and the lease left
  faults,     \* remote calls that have failed so far
  pc,         \* where each worker's invocation stands
  args,       \* get_or_create_sketch's arguments: sketch_id, sketch_name, workflow_id
  name,       \* the local variable sketch_name (reassigned on line 63)
  sketch,     \* the local variable sketch
  wait,       \* time left of blocking_timeout while a worker waits for the lock
  arrival,    \* while a worker waits: the lease left on the lock when it began to (0: free)
  listing,    \* what list_sketches() returned to the worker
  pending,    \* the exception raised inside the with-block, until __exit__ has run
  err,        \* the exception the invocation ended with
  calls,      \* the calls the worker has made on its collaborators, in order
  task,       \* what the worker runs: "upload", a direct "call", or "none"
  environ,    \* os.environ of the worker process
  task_config,\* upload's task_config
  workflow_id,\* upload's workflow_id
  input_files,\* upload's input files
  idx,        \* the input file the import loop stands at
  session,    \* whether the worker's ImportStreamer session is open
  created,    \* the sketches created so far: by whom, on which path, under the lock?
  public,     \* ids of the sketches whose ACL has been made public
  timelines,  \* the timelines the server has imported, in order
  result      \* the task result upload returned

resolver == <<pc, args, name, sketch, wait, arrival, listing, pending, err>>
inputs == <<task, environ, task_config, workflow_id, input_files>>
importing == <<idx, session, timelines, result>>
vars == <<sketches, created, lock, faults, calls, resolver, inputs, importing, public>>

FreeLock == [holder |-> NoHolder, ttl |-> 0]

\* One sketch per position, ids 1..n, as the server numbers them.
InitSketches ==
  UNION {{[i \in 1..n |-> [id |-> i, name |-> f[i]]] :
            f \in [1..n -> SketchNames]} : n \in 0..MaxInitSketches}

NoArgs == [sketch_id |-> NoText, sketch_name |-> NoName, workflow_id |-> "7"]
NoConfig == [sketch_id |-> NoText, sketch_name |-> NoName, timeline_name |-> NoName,
             make_sketch_public |-> "absent"]
NoResult == [command |-> "", workflow_id |-> "", output_files |-> <<>>, sketch |-> ""]

\* No worker has started, nothing has been imported or made public.
Fresh ==
  /\ sketches \in InitSketches
  /\ faults = 0
  /\ pc = [w \in Workers |-> "idle"]
  /\ name = [w \in Workers |-> NoName]
  /\ sketch = [w \in Workers |-> NoSketch]
  /\ wait = [w \in Workers |-> 0]
  /\ arrival = [w \in Workers |-> 0]
  /\ listing = [w \in Workers |-> <<>>]
  /\ pending = [w \in Workers |-> NoError]
  /\ err = [w \in Workers |-> NoError]
  /\ calls = [w \in Workers |-> <<>>]
  /\ idx = [w \in Workers |-> 0]
  /\ session = [w \in Workers |-> "none"]
  /\ created = {}
  /\ public = {}
  /\ timelines = <<>>
  /\ result = [w \in Workers |-> NoResult]

\* Both workers call get_or_create_sketch; the lock is free.
Init ==
  /\ Fresh
  /\ lock = [n \in LockNames |-> FreeLock]
  /\ task = [w \in Workers |-> "call"]
  /\ args \in [Workers -> CallArgs]
  /\ environ \in {e \in Environs : \A v \in DOMAIN e : e[v] # ""}
  /\ task_config = [w \in Workers |-> NoConfig]
  /\ workflow_id = [w \in Workers |-> "7"]
  /\ input_files = [w \in Workers |-> <<>>]

\* One worker runs the upload task. When the task will take the default-name
\* path, another process may just have taken the lock of its workflow.
InitUpload ==
  /\ Fresh
  /\ task = [w \in Workers |-> IF w = "w1" THEN "upload" ELSE "none"]
  /\ args = [w \in Workers |-> NoArgs]
  /\ environ \in Environs
  /\ task_config \in {[w \in Workers |-> IF w = "w1" THEN c ELSE NoConfig] :
                         c \in TaskConfigs}
  /\ workflow_id = [w \in Workers |-> "7"]
  /\ input_files \in {[w \in Workers |-> IF w = "w1" THEN f ELSE <<>>] :
                         f \in InputFiles}
  /\ \E l \in {FreeLock, [holder |-> OtherHolder, ttl |-> LOCK_TIMEOUT]} :
       /\ l # FreeLock =>
            /\ Branch(task_config["w1"].sketch_id, task_config["w1"].sketch_name) = "acquire"
            /\ \A v \in DOMAIN environ : environ[v] # ""
       /\ lock = [n \in LockNames |-> IF n = DefaultName("7") THEN l ELSE FreeLock]

\* ------------------------------------------------------------ collaborators
Holds(w, n) == n \in LockNames /\ lock[n].holder = w
HoldsAny(w) == \E n \in LockNames : lock[n].holder = w

\* A call on a collaborator: what was called, with which id or name, whether
\* the caller held a lock then, and how it ended ("ok", "none", "raised").
CallRec(w, op, id, nm, out) ==
  [op |-> op, id |-> id, name |-> nm, held |-> HoldsAny(w), out |-> out]
Logged(w, op, id, nm, out) ==
  calls' = [calls EXCEPT ![w] = Append(@, CallRec(w, op, id, nm, out))]
Ops(w) == {calls[w][i].op : i \in 1..Len(calls[w])}
Count(w, op) == Cardinality({i \in 1..Len(calls[w]) : calls[w][i].op = op})
Made(w, op, out) == \E i \in 1..Len(calls[w]) : calls[w][i].op = op /\ calls[w][i].out = out

\* SET key token NX PX lease: the lock is taken only when nobody holds it.
CanAcquire(n) == lock[n].holder = NoHolder
Acquired(n, w) == [lock EXCEPT ![n] = [holder |-> w, ttl |-> LOCK_TIMEOUT]]
\* Mutant of Released: the key is left in place.
Released_Leak(n, w) == lock
\* Lock.release(): deletes the key when it still carries the caller's token.
Released(n, w) == [lock EXCEPT ![n] = FreeLock]

\* The handle create_sketch(nm) returns: the server numbers sketches 1, 2, ...
NewSketch(nm) == [id |-> Len(sketches) + 1, name |-> nm]

\* create_sketch(nm) succeeds: the server has one more sketch, somewhere in its
\* list order, and the caller has its handle.
Created(w, nm) ==
  /\ \E p \in 1..(Len(sketches) + 1) : sketches' = InsertAt(sketches, p, NewSketch(nm))
  /\ sketch' = [sketch EXCEPT ![w] = NewSketch(nm)]
  /\ created' = created \cup {[id |-> Len(sketches) + 1, name |-> nm, by |-> w,
                               path |-> pc[w], held |-> Holds(w, nm)]}
  /\ Logged(w, "create_sketch", Len(sketches) + 1, nm, "ok")

\* create_sketch(nm) returns no handle, or raises: nothing is created.
NotCreated(w, nm, out) ==
  /\ Logged(w, "create_sketch", 0, nm, out)
  /\ UNCHANGED <<sketches, created>>

ServiceError(op) == [type |-> "ServiceError", parts |-> <<op>>]
LockError == [type |-> "LockError",
              parts |-> <<"Unable to acquire lock within the time specified">>]
LockNotOwnedError == [type |-> "LockNotOwnedError",
                      parts |-> <<"Cannot release a lock that's no longer owned">>]
ValueErrorInt(t) == [type |-> "ValueError",
                     parts |-> <<"invalid literal for int() with base 10: '",
                                 Render(t), "'">>]

MayFail == faults < MaxFaults
Failed == faults' = faults + 1

\* ------------------------------------------------- get_or_create_sketch
\* Lines 56-63: sketch = None, the branch, and the default name.
Enter(w, a) ==
  /\ args' = [args EXCEPT ![w] = a]
  /\ sketch' = [sketch EXCEPT ![w] = NoSketch]
  /\ LET b == Branch(a.sketch_id, a.sketch_name) IN
       /\ pc' = [pc EXCEPT ![w] = b]
       /\ name' = [name EXCEPT ![w] =
                     IF b = "acquire" THEN DefaultName(a.workflow_id) ELSE a.sketch_name]
       /\ wait' = [wait EXCEPT ![w] = IF b = "acquire" THEN BLOCKING_TIMEOUT ELSE @]
       /\ arrival' = [arrival EXCEPT ![w] =
                        IF b = "acquire" THEN lock[DefaultName(a.workflow_id)].ttl ELSE 0]

\* A direct call of get_or_create_sketch, as the unit tests make it.
Call(w) ==
  /\ pc[w] = "idle"
  /\ task[w] = "call"
  /\ Enter(w, args[w])
  /\ UNCHANGED <<sketches, created, lock, faults, listing, pending, err, calls,
               inputs, importing, public>>

Raise(w, e) ==
  /\ pc' = [pc EXCEPT ![w] = "raised"]
  /\ err' = [err EXCEPT ![w] = e]

\* Line 59: sketch = timesketch_api_client.get_sketch(int(sketch_id))
GetSketch(w) ==
  /\ pc[w] = "get"
  /\ IF ~IsIntText(args[w].sketch_id)
     THEN /\ Raise(w, ValueErrorInt(args[w].sketch_id))
          /\ UNCHANGED <<sketch, faults, calls>>
     ELSE LET id == ParseInt(args[w].sketch_id) IN
          \/ /\ sketch' = [sketch EXCEPT ![w] = Lookup(sketches, id)]
             /\ Logged(w, "get_sketch", id, NoName,
                       IF TruthySketch(Lookup(sketches, id)) THEN "ok" ELSE "none")
             /\ pc' = [pc EXCEPT ![w] = "resolved"]
             /\ UNCHANGED <<err, faults>>
          \/ /\ MayFail /\ Failed
             /\ Logged(w, "get_sketch", id, NoName, "raised")
             /\ Raise(w, ServiceError("get_sketch"))
             /\ UNCHANGED sketch
  /\ UNCHANGED <<sketches, created, lock, args, name, wait, arrival, listing, pending,
               inputs, importing, public>>

\* Line 61: sketch = timesketch_api_client.create_sketch(sketch_name)
CreateNamed(w) ==
  /\ pc[w] = "create_named"
  /\ \/ /\ Created(w, name[w])
        /\ pc' = [pc EXCEPT ![w] = "resolved"]
        /\ UNCHANGED <<err, faults>>
     \/ /\ MayFail /\ Failed
        /\ NotCreated(w, name[w], "none")
        /\ sketch' = [sketch EXCEPT ![w] = NoSketch]
        /\ pc' = [pc EXCEPT ![w] = "resolved"]
        /\ UNCHANGED err
     \/ /\ MayFail /\ Failed
        /\ NotCreated(w, name[w], "raised")
        /\ Raise(w, ServiceError("create_sketch"))
        /\ UNCHANGED sketch
  /\ UNCHANGED <<lock, args, name, wait, arrival, listing, pending,
               inputs, importing, public>>

\* Line 68, __enter__: the lock is acquired within blocking_timeout ...
Acquire(w) ==
  /\ pc[w] = "acquire"
  /\ CanAcquire(name[w])
  /\ lock' = Acquired(name[w], w)
  /\ Logged(w, "lock.acquire", 0, name[w], "ok")
  /\ pc' = [pc EXCEPT ![w] = "list"]
  /\ wait' = [wait EXCEPT ![w] = 0]
  /\ arrival' = [arrival EXCEPT ![w] = 0]
  /\ UNCHANGED <<sketches, created, faults, args, name, sketch, listing, pending, err,
               inputs, importing, public>>

\* Mutant of LockTimeout: the failed acquire is ignored and the block is entered.
LockTimeout_Unlocked(w) ==
  /\ pc[w] = "acquire"
  /\ wait[w] = 0
  /\ ~CanAcquire(name[w])
  /\ Logged(w, "lock.acquire", 0, name[w], "raised")
  /\ pc' = [pc EXCEPT ![w] = "list"]
  /\ arrival' = [arrival EXCEPT ![w] = 0]
  /\ UNCHANGED <<sketches, created, lock, faults, args, name, sketch, wait, listing,
                 pending, err, inputs, importing, public>>

\* ... or __enter__ raises LockError once blocking_timeout has run out.
LockTimeout(w) ==
  /\ pc[w] = "acquire"
  /\ wait[w] = 0
  /\ ~CanAcquire(name[w])
  /\ Logged(w, "lock.acquire", 0, name[w], "raised")
  /\ Raise(w, LockError)
  /\ arrival' = [arrival EXCEPT ![w] = 0]
  /\ UNCHANGED <<sketches, created, lock, faults, args, name, sketch, wait, listing, pending,
               inputs, importing, public>>

\* Lines 70-73: list the sketches and take the first one of that name.
ListSketches(w) ==
  /\ pc[w] = "list"
  /\ \/ /\ listing' = [listing EXCEPT ![w] = sketches]
        /\ Logged(w, "list_sketches", 0, NoName, "ok")
        /\ sketch' = [sketch EXCEPT ![w] = FirstMatch(sketches, name[w])]
        /\ pc' = [pc EXCEPT ![w] =
                    IF TruthySketch(FirstMatch(sketches, name[w]))
                    THEN "release" ELSE "create_default"]
        /\ UNCHANGED <<pending, faults>>
     \/ /\ MayFail /\ Failed
        /\ Logged(w, "list_sketches", 0, NoName, "raised")
        /\ pending' = [pending EXCEPT ![w] = ServiceError("list_sketches")]
        /\ pc' = [pc EXCEPT ![w] = "release"]
        /\ UNCHANGED <<listing, sketch>>
  /\ UNCHANGED <<sketches, created, lock, args, name, wait, arrival, err,
               inputs, importing, public>>

\* Lines 76-77: if not sketch: sketch = create_sketch(sketch_name)
CreateDefault(w) ==
  /\ pc[w] = "create_default"
  /\ pc' = [pc EXCEPT ![w] = "release"]
  /\ \/ /\ Created(w, name[w])
        /\ UNCHANGED <<pending, faults>>
     \/ /\ MayFail /\ Failed
        /\ NotCreated(w, name[w], "none")
        /\ sketch' = [sketch EXCEPT ![w] = NoSketch]
        /\ UNCHANGED pending
     \/ /\ MayFail /\ Failed
        /\ NotCreated(w, name[w], "raised")
        /\ pending' = [pending EXCEPT ![w] = ServiceError("create_sketch")]
        /\ UNCHANGED sketch
  /\ UNCHANGED <<lock, args, name, wait, arrival, listing, err,
               inputs, importing, public>>

\* Line 68, __exit__: release the lock, then return or let the exception go on.
\* Releasing a lock whose lease has run out raises LockNotOwnedError and leaves
\* the key, which may be another worker's by now, alone.
Release(w) ==
  /\ pc[w] = "release"
  /\ Logged(w, "lock.release", 0, name[w], IF Holds(w, name[w]) THEN "ok" ELSE "raised")
  /\ IF Holds(w, name[w])
     THEN /\ lock' = Released(name[w], w)
          /\ IF pending[w] = NoError
             THEN pc' = [pc EXCEPT ![w] = "resolved"] /\ UNCHANGED err
             ELSE Raise(w, pending[w])
     ELSE /\ Raise(w, LockNotOwnedError)
          /\ UNCHANGED lock
  /\ pending' = [pending EXCEPT ![w] = NoError]
  /\ UNCHANGED <<sketches, created, faults, args, name, sketch, wait, arrival, listing,
               inputs, importing, public>>

\* Line 68 as redis_client.lock(sketch_name), with neither timeout nor
\* blocking_timeout: the passage of time ends no lease and no wait.
Tick_Unbounded ==
  /\ \/ \E n \in LockNames : lock[n].holder # NoHolder
     \/ \E w \in Workers : pc[w] = "acquire"
  /\ UNCHANGED vars

\* One unit of time passes: leases run down, waiters' blocking_timeout too.
Tick ==
  /\ \A w \in Workers : pc[w] = "acquire" => wait[w] > 0
  /\ \/ \E n \in LockNames : lock[n].holder # NoHolder
     \/ \E w \in Workers : pc[w] = "acquire"
  /\ lock' = [n \in LockNames |->
                IF lock[n].holder = NoHolder THEN lock[n]
                ELSE IF lock[n].ttl = 1 THEN FreeLock
                ELSE [lock[n] EXCEPT !.ttl = @ - 1]]
  /\ wait' = [w \in Workers |-> IF pc[w] = "acquire" THEN wait[w] - 1 ELSE wait[w]]
  /\ UNCHANGED <<sketches, created, faults, pc, args, name, sketch, arrival, listing, pending,
                 err, calls, inputs, importing, public>>

\* --------------------------------------------------------------- upload
\* Line 181 stopping at the first unset variable.
MissingVars_First(e) ==
  IF \E i \in 1..Len(EnvVars) : e[EnvVars[i]] = ""
  THEN <<EnvVars[CHOOSE i \in 1..Len(EnvVars) :
                   /\ e[EnvVars[i]] = ""
                   /\ \A j \in 1..i - 1 : e[EnvVars[j]] # ""]>>
  ELSE <<>>

\* Line 181: missing_vars = [k for k, v in required_env_vars.items() if not v]
MissingVars(e) == SelectSeq(EnvVars, LAMBDA v : e[v] = "")

RECURSIVE JoinComma(_)
JoinComma(xs) == IF xs = <<>> THEN ""
                 ELSE IF Len(xs) = 1 THEN xs[1]
                 ELSE xs[1] \o ", " \o JoinComma(Tail(xs))

MissingEnvError(e) ==
  [type |-> "ValueError",
   parts |-> <<"Missing required environment variables for Timesketch worker: ",
               JoinComma(MissingVars(e))>>]

\* Lines 191-193 with the test on sketch_name: the name takes precedence.
SketchIdentifier_NameFirst(c, wf) ==
  IF TruthyName(c.sketch_name)
  THEN [sketch_id |-> NoText, sketch_name |-> c.sketch_name, workflow_id |-> wf]
  ELSE [sketch_id |-> c.sketch_id, sketch_name |-> NoName, workflow_id |-> wf]

\* Lines 189-193: sketch_id takes precedence; the other key is not passed at all.
SketchIdentifier(c, wf) ==
  IF TruthyText(c.sketch_id)
  THEN [sketch_id |-> c.sketch_id, sketch_name |-> NoName, workflow_id |-> wf]
  ELSE [sketch_id |-> NoText, sketch_name |-> c.sketch_name, workflow_id |-> wf]

\* Line 194: task_config.get("make_sketch_public", True)
MakeSketchPublic(c) == c.make_sketch_public # "false"

\* Line 212
NoSketchError(c) ==
  [type |-> "Exception",
   parts |-> <<"Failed to create or retrieve sketch '", NameStr(c.sketch_name), "'">>]

\* Lines 222-224
AclError(s, e) ==
  [type |-> "RuntimeError",
   parts |-> <<"Failed to make sketch ", IntStr(s.id), " ('", s.name, "') public: ",
               e.type>>]

\* Line 229: task_config.get("timeline_name") or input_file.get("display_name")
TimelineName(c, f) == IF TruthyName(c.timeline_name) THEN c.timeline_name
                      ELSE f.display_name

\* Lines 237-242
TaskResult(wf, e, s) ==
  [command |-> "Timesketch Importer Client", workflow_id |-> wf, output_files |-> <<>>,
   sketch |-> e["TIMESKETCH_SERVER_PUBLIC_URL"] \o "/sketch/" \o IntStr(s.id)]

\* Lines 166-209: the environment is validated, the API client is built and
\* get_or_create_sketch is entered.
UploadStart(w) ==
  /\ pc[w] = "idle"
  /\ task[w] = "upload"
  /\ \/ /\ MissingVars(environ) # <<>>
        /\ Raise(w, MissingEnvError(environ))
        /\ UNCHANGED <<args, name, sketch, wait, arrival, faults, calls>>
     \/ /\ MissingVars(environ) = <<>>
        /\ \/ /\ Enter(w, SketchIdentifier(task_config[w], workflow_id[w]))
              /\ Logged(w, "TimesketchApi", 0, NoName, "ok")
              /\ UNCHANGED <<err, faults>>
           \/ /\ MayFail /\ Failed
              /\ Logged(w, "TimesketchApi", 0, NoName, "raised")
              /\ Raise(w, [type |-> "ConnectionError", parts |-> <<"TimesketchApi">>])
              /\ UNCHANGED <<args, name, sketch, wait, arrival>>
  /\ UNCHANGED <<sketches, created, lock, listing, pending, inputs, importing, public>>

\* Lines 211-215: no sketch is an error; otherwise the sketch is made public.
AclFirst(w) ==
  /\ pc[w] = "resolved"
  /\ task[w] = "upload"
  /\ \/ /\ ~TruthySketch(sketch[w])
        /\ Raise(w, NoSketchError(task_config[w]))
        /\ UNCHANGED <<public, faults, calls>>
     \/ /\ TruthySketch(sketch[w])
        /\ \/ /\ public' = public \cup {sketch[w].id}
              /\ Logged(w, "add_to_acl", sketch[w].id, sketch[w].name, "ok")
              /\ pc' = [pc EXCEPT ![w] = "acl"]
              /\ UNCHANGED <<err, faults>>
           \/ /\ MayFail /\ Failed
              /\ Logged(w, "add_to_acl", sketch[w].id, sketch[w].name, "raised")
              /\ Raise(w, ServiceError("add_to_acl"))
              /\ UNCHANGED public
  /\ UNCHANGED <<sketches, created, lock, args, name, sketch, wait, arrival, listing, pending,
                 inputs, importing>>

\* Lines 218-224 with an except clause that only logs: the import goes on
\* after a failed ACL change.
AclConfigured_LogOnly(w) ==
  /\ pc[w] = "acl"
  /\ pc' = [pc EXCEPT ![w] = "import"]
  /\ \/ /\ ~MakeSketchPublic(task_config[w])
        /\ UNCHANGED <<public, faults, calls>>
     \/ /\ MakeSketchPublic(task_config[w])
        /\ \/ /\ public' = public \cup {sketch[w].id}
              /\ Logged(w, "add_to_acl", sketch[w].id, sketch[w].name, "ok")
              /\ UNCHANGED faults
           \/ /\ MayFail /\ Failed
              /\ Logged(w, "add_to_acl", sketch[w].id, sketch[w].name, "raised")
              /\ UNCHANGED public
  /\ idx' = [idx EXCEPT ![w] = 1]
  /\ UNCHANGED <<sketches, created, lock, args, name, sketch, wait, arrival, listing, pending,
                 err, inputs, session, timelines, result>>

\* Lines 218-224: the sketch is made public if configured.
AclConfigured(w) ==
  /\ pc[w] = "acl"
  /\ \/ /\ ~MakeSketchPublic(task_config[w])
        /\ pc' = [pc EXCEPT ![w] = "import"]
        /\ UNCHANGED <<public, err, faults, calls>>
     \/ /\ MakeSketchPublic(task_config[w])
        /\ \/ /\ public' = public \cup {sketch[w].id}
              /\ Logged(w, "add_to_acl", sketch[w].id, sketch[w].name, "ok")
              /\ pc' = [pc EXCEPT ![w] = "import"]
              /\ UNCHANGED <<err, faults>>
           \/ /\ MayFail /\ Failed
              /\ Logged(w, "add_to_acl", sketch[w].id, sketch[w].name, "raised")
              /\ Raise(w, AclError(sketch[w], ServiceError("add_to_acl")))
              /\ UNCHANGED public
  /\ idx' = [idx EXCEPT ![w] = 1]
  /\ UNCHANGED <<sketches, created, lock, args, name, sketch, wait, arrival, listing, pending,
                 inputs, session, timelines, result>>

\* Lines 227-234: the next file's streamer session is opened and set up.
ImportOpen(w) ==
  /\ pc[w] = "import"
  /\ idx[w] <= Len(input_files[w])
  /\ session' = [session EXCEPT ![w] = "open"]
  /\ Logged(w, "ImportStreamer", idx[w],
            TimelineName(task_config[w], input_files[w][idx[w]]), "ok")
  /\ pc' = [pc EXCEPT ![w] = "add_file"]
  /\ UNCHANGED <<sketches, created, lock, faults, args, name, sketch, wait, arrival, listing, pending,
                 err, inputs, idx, timelines, result, public>>

\* Line 235: streamer.add_file(input_file_path)
AddFile(w) ==
  /\ pc[w] = "add_file"
  /\ pc' = [pc EXCEPT ![w] = "close"]
  /\ \/ /\ timelines' = Append(timelines,
                [sketch |-> sketch[w].id,
                 name |-> TimelineName(task_config[w], input_files[w][idx[w]]),
                 path |-> input_files[w][idx[w]].path])
        /\ Logged(w, "add_file", idx[w], input_files[w][idx[w]].path, "ok")
        /\ UNCHANGED <<pending, faults>>
     \/ /\ MayFail /\ Failed
        /\ Logged(w, "add_file", idx[w], input_files[w][idx[w]].path, "raised")
        /\ pending' = [pending EXCEPT ![w] = ServiceError("add_file")]
        /\ UNCHANGED timelines
  /\ UNCHANGED <<sketches, created, lock, args, name, sketch, wait, arrival, listing, err, inputs, idx,
                 session, result, public>>

\* Line 232 with an __exit__ that swallows the error of add_file: the loop goes
\* on with the next file.
ImportClose_Swallow(w) ==
  /\ pc[w] = "close"
  /\ session' = [session EXCEPT ![w] = "none"]
  /\ Logged(w, "ImportStreamer.close", idx[w], NoName, "ok")
  /\ pc' = [pc EXCEPT ![w] = "import"]
  /\ idx' = [idx EXCEPT ![w] = @ + 1]
  /\ pending' = [pending EXCEPT ![w] = NoError]
  /\ UNCHANGED <<sketches, created, lock, faults, args, name, sketch, wait, arrival, listing, inputs,
                 timelines, result, public, err>>

\* Line 232, __exit__: the session is closed; an error of add_file goes on.
ImportClose(w) ==
  /\ pc[w] = "close"
  /\ session' = [session EXCEPT ![w] = "none"]
  /\ Logged(w, "ImportStreamer.close", idx[w], NoName, "ok")
  /\ IF pending[w] = NoError
     THEN /\ pc' = [pc EXCEPT ![w] = "import"]
          /\ idx' = [idx EXCEPT ![w] = @ + 1]
          /\ UNCHANGED err
     ELSE /\ Raise(w, pending[w])
          /\ UNCHANGED idx
  /\ pending' = [pending EXCEPT ![w] = NoError]
  /\ UNCHANGED <<sketches, created, lock, faults, args, name, sketch, wait, arrival, listing, inputs,
                 timelines, result, public>>

\* Lines 237-242: every file is in; the task result is returned.
Finish(w) ==
  /\ pc[w] = "import"
  /\ idx[w] > Len(input_files[w])
  /\ result' = [result EXCEPT ![w] = TaskResult(workflow_id[w], environ, sketch[w])]
  /\ pc' = [pc EXCEPT ![w] = "done"]
  /\ UNCHANGED <<sketches, created, lock, faults, calls, args, name, sketch, wait, arrival, listing,
                 pending, err, inputs, idx, session, timelines, public>>

Upload(w) ==
  \/ UploadStart(w)
  \/ AclFirst(w)
  \/ AclConfigured(w)
  \/ ImportOpen(w)
  \/ AddFile(w)
  \/ ImportClose(w)
  \/ Finish(w)

Resolve(w) ==
  \/ GetSketch(w)
  \/ CreateNamed(w)
  \/ Acquire(w)
  \/ LockTimeout(w)
  \/ ListSketches(w)
  \/ CreateDefault(w)
  \/ Release(w)

Next ==
  \/ \E w \in Workers : Call(w) \/ Resolve(w)
  \/ Tick

Spec == Init /\ [][Next]_vars

NextUpload ==
  \/ \E w \in Workers : Upload(w) \/ Resolve(w)
  \/ Tick

SpecUpload == InitUpload /\ [][NextUpload]_vars

\* Both workers call get_or_create_sketch without id or name, each for one of
\* the workflows; the server has no sketch yet.
InitWorkflows ==
  /\ Fresh
  /\ sketches = <<>>
  /\ lock = [n \in LockNames |-> FreeLock]
  /\ task = [w \in Workers |-> "call"]
  /\ args \in [Workers -> DefaultArgs(WorkflowIds)]
  /\ environ \in {e \in Environs : \A v \in DOMAIN e : e[v] # ""}
  /\ task_config = [w \in Workers |-> NoConfig]
  /\ workflow_id = [w \in Workers |-> args[w].workflow_id]
  /\ input_files = [w \in Workers |-> <<>>]

\* Lines 63-77: the default-name path.
DefaultPath(w) ==
  \/ Acquire(w)
  \/ LockTimeout(w)
  \/ ListSketches(w)
  \/ CreateDefault(w)
  \/ Release(w)

NextWorkflows ==
  \/ \E w \in Workers : Call(w) \/ DefaultPath(w)
  \/ Tick

SpecWorkflows == InitWorkflows /\ [][NextWorkflows]_vars

\* Both workers are of one workflow. Worker w1 runs whenever it can and time
\* goes on; nothing is assumed of w2, which may stall or die at any line, the
\* lock in its hands.
InitStall ==
  /\ InitWorkflows
  /\ \A w \in Workers : args[w].workflow_id = "7"

FairStall ==
  /\ InitStall
  /\ [][NextWorkflows]_vars
  /\ WF_vars(Tick)
  /\ WF_vars(Call("w1") \/ DefaultPath("w1"))

\* ------------------------------------------------------------------ claims
Range(f) == {f[i] : i \in DOMAIN f}
Finished(w) == pc[w] \in {"resolved", "raised"}
Returned(w) == pc[w] = "resolved"
ById(w) == TruthyText(args[w].sketch_id)
ByName(w) == ~TruthyText(args[w].sketch_id) /\ TruthyName(args[w].sketch_name)
ByDefault(w) == ~TruthyText(args[w].sketch_id) /\ ~TruthyName(args[w].sketch_name)
DefaultNameOf(w) == "openrelik-workflow-" \o args[w].workflow_id
\* The server held no sketch before the workers started.
InitiallyEmpty == Len(sketches) = Cardinality(created)
Mentions(e, text) == \E i \in 1..Len(e.parts) : e.parts[i] = text

\* A decimal text without its leading zeros, and the sketch a text names.
RECURSIVE StripZeros(_)
StripZeros(t) == IF Len(t) > 1 /\ t[1] = "0" THEN StripZeros(Tail(t)) ELSE t
Named(all, t) ==
  LET m == {i \in 1..Len(all) : IntStr(all[i].id) = Render(StripZeros(t))}
  IN IF m = {} THEN NoSketch ELSE all[CHOOSE i \in m : TRUE]

SameWorkflowRace ==
  /\ \A w \in Workers : task[w] = "call" /\ ByDefault(w)
  /\ \A v, w \in Workers : args[v].workflow_id = args[w].workflow_id
  /\ InitiallyEmpty

C2_AtMostOneDefaultSketch ==
  \A wf \in WorkflowIds :
    Cardinality({c \in created :
                   c.path = "create_default" /\ c.name = "openrelik-workflow-" \o wf}) <= 1

\* C3: an invocation whose lock acquisition timed out has failed with the lock
\* error, without listing or creating; and nobody lists or creates on the
\* default-name path without having acquired the lock.
C3_LockTimeoutFails ==
  \A w \in Workers :
    /\ Made(w, "lock.acquire", "raised") =>
         /\ pc[w] = "raised" /\ err[w].type = "LockError"
         /\ Ops(w) = {"lock.acquire"} /\ Len(calls[w]) = 1
         /\ ~HoldsAny(w)
         /\ \A c \in created : c.by # w
    /\ (ByDefault(w) /\ (pc[w] \in {"list", "create_default", "release"}
                           \/ Ops(w) \cap {"list_sketches", "create_sketch"} # {})) =>
         /\ Len(calls[w]) >= 1
         /\ calls[w][1].op = "lock.acquire" /\ calls[w][1].out = "ok"
         /\ calls[w][1].name = DefaultNameOf(w)
    /\ pc[w] = "acquire" => wait[w] \in 0..BLOCKING_TIMEOUT

C3_Witness ==
  \E w \in Workers : ByDefault(w) /\ pc[w] = "raised" /\ err[w].type = "LockError"

\* C4: outside the list-then-create block (and so after every return or
\* raise) an invocation holds no lock.
C4_LockReleasedOnExit ==
  \A w \in Workers : pc[w] \notin {"list", "create_default", "release"} => ~HoldsAny(w)

C4_Witness ==
  \E w \in Workers :
    /\ pc[w] = "raised" /\ err[w].type = "ServiceError"
    /\ Made(w, "lock.acquire", "ok") /\ Made(w, "lock.release", "ok")

\* C5: with a sketch_id, the invocation only ever calls get_sketch, with the
\* number the id text denotes, returns the sketch of that id (or none), and
\* leaves the locks and the server's sketches as they are.
C5_ByIdIsALookup ==
  [][\A w \in Workers : (task[w] = "call" /\ ById(w) /\ pc'[w] # pc[w]) =>
       \/ /\ pc[w] = "idle" /\ pc'[w] = "get"
          /\ calls' = calls
       \/ /\ pc[w] = "get" /\ pc'[w] \in {"resolved", "raised"}
          /\ lock' = lock /\ sketches' = sketches /\ created' = created
          /\ \A i \in 1..Len(calls'[w]) :
               /\ calls'[w][i].op = "get_sketch"
               /\ IntStr(calls'[w][i].id) = Render(StripZeros(args[w].sketch_id))
          /\ Len(calls'[w]) <= 1
          /\ pc'[w] = "resolved" =>
               /\ Len(calls'[w]) = 1
               /\ sketch'[w] = Named(sketches, args[w].sketch_id)]_vars

C5_Witness ==
  \E w \in Workers :
    /\ task[w] = "call" /\ args[w].sketch_id = <<"0", "1">> /\ Returned(w)
    /\ sketch[w].id = 1 /\ sketch[w] \in Range(sketches)
    /\ Len(sketches) > 1

\* C6: an id lookup that finds no sketch makes get_or_create_sketch fail, the
\* task fail with an error that names the id, and no file be imported.
C6_NotFoundFails ==
  \A w \in Workers :
    (task[w] = "upload" /\ TruthyText(task_config[w].sketch_id)
       /\ Made(w, "get_sketch", "none")) =>
      /\ pc[w] = "raised"
      /\ Mentions(err[w], Render(task_config[w].sketch_id))
      /\ "ImportStreamer" \notin Ops(w)

\* C7: with a sketch_name and no sketch_id, the invocation makes exactly one
\* call, create_sketch(sketch_name), returns its result, which is a sketch it
\* created itself, and never touches a lock or the listing.
C7_ByNameAlwaysCreates ==
  \A w \in Workers : (task[w] = "call" /\ ByName(w)) =>
    /\ ~HoldsAny(w)
    /\ Len(calls[w]) <= 1
    /\ \A i \in 1..Len(calls[w]) :
         calls[w][i].op = "create_sketch" /\ calls[w][i].name = args[w].sketch_name
    /\ Finished(w) => Len(calls[w]) = 1
    /\ (Returned(w) /\ calls[w][1].out = "ok") =>
         /\ sketch[w] = [id |-> calls[w][1].id, name |-> args[w].sketch_name]
         /\ sketch[w] \in Range(sketches)
         /\ \E c \in created : c.by = w /\ c.id = sketch[w].id
    /\ (Returned(w) /\ calls[w][1].out = "none") => sketch[w] = NoSketch

C7_Witness ==
  \E w \in Workers :
    /\ task[w] = "call" /\ ByName(w) /\ Returned(w) /\ TruthySketch(sketch[w])
    /\ \E s \in Range(sketches) :
         /\ s.name = sketch[w].name /\ s.id # sketch[w].id
         /\ \A c \in created : c.id # s.id

\* C8: when create_sketch returns no handle, get_or_create_sketch does not
\* return: it fails with an error that names the sketch name.
C8_CreationFailureRaises ==
  \A w \in Workers :
    (task[w] = "call" /\ Made(w, "create_sketch", "none") /\ Finished(w)) =>
      /\ pc[w] = "raised"
      /\ Mentions(err[w], name[w])

\* C9: once the listing is in, the sketch taken is the first listed one of the
\* default name and nothing is created; create_sketch(default name) is called
\* exactly when the listing holds no sketch of that name.
C9_FirstMatchElseCreate ==
  \A w \in Workers : (task[w] = "call" /\ ByDefault(w)) =>
    LET m == {i \in 1..Len(listing[w]) : listing[w][i].name = DefaultNameOf(w)}
        creates == {i \in 1..Len(calls[w]) : calls[w][i].op = "create_sketch"}
    IN /\ ~Made(w, "list_sketches", "ok") => creates = {}
       /\ (Made(w, "list_sketches", "ok") /\ m # {}) =>
            /\ creates = {}
            /\ sketch[w] = listing[w][CHOOSE i \in m : \A j \in m : i <= j]
       /\ (Made(w, "list_sketches", "ok") /\ m = {}) =>
            /\ pc[w] = "create_default" \/ Cardinality(creates) = 1
            /\ \A i \in creates : calls[w][i].name = DefaultNameOf(w)

C9_Witness ==
  \E w \in Workers :
    /\ task[w] = "call" /\ ByDefault(w) /\ Returned(w)
    /\ \E i, j \in 1..Len(listing[w]) :
         /\ i < j
         /\ listing[w][i].name = DefaultNameOf(w) /\ listing[w][j].name = DefaultNameOf(w)
         /\ sketch[w] = listing[w][i]
         /\ \A k \in 1..(i - 1) : listing[w][k].name # DefaultNameOf(w)

\* C10: with make_sketch_public false, upload makes no add_to_acl call.
C10_NotPublicUnlessConfigured ==
  \A w \in Workers :
    (task[w] = "upload" /\ task_config[w].make_sketch_public = "false") =>
      "add_to_acl" \notin Ops(w)

\* C11: whenever an add_to_acl call on the resolved sketch fails during
\* upload, the task fails with the visibility error (RuntimeError) whose
\* message names the sketch's id and name, not with the underlying exception,
\* and no file is imported.
C11_AclFailureIsVisibilityError ==
  \A w \in Workers :
    (task[w] = "upload" /\ Made(w, "add_to_acl", "raised")) =>
      /\ pc[w] = "raised"
      /\ err[w].type = "RuntimeError"
      /\ Mentions(err[w], IntStr(sketch[w].id))
      /\ Mentions(err[w], sketch[w].name)
      /\ err[w] # ServiceError("add_to_acl")
      /\ "ImportStreamer" \notin Ops(w)
      /\ timelines = <<>>

\* The files of worker w that were handed to add_file, by position in
\* input_files.
Submitted(w) == {calls[w][i].id : i \in {j \in 1..Len(calls[w]) : calls[w][j].op = "add_file"}}
FailedFile(w) == CHOOSE n \in 1..MaxFiles + 1 :
                   \E i \in 1..Len(calls[w]) :
                     /\ calls[w][i].op = "add_file"
                     /\ calls[w][i].out = "raised"
                     /\ calls[w][i].id = n

\* C12: if add_file of input file N fails, files N+1.. are never submitted,
\* the task fails with that error and without a result, the import session of
\* file N is closed, and the timelines of files 1..N-1 stay as they were made.
C12_ImportFailureStops ==
  \A w \in Workers :
    (task[w] = "upload" /\ Made(w, "add_file", "raised")) =>
      LET n == FailedFile(w) IN
        /\ Submitted(w) = 1..n
        /\ Count(w, "add_file") = n
        /\ Count(w, "ImportStreamer") = n
        /\ pc[w] \in {"close", "raised"}
        /\ result[w] = NoResult
        /\ pc[w] = "raised" =>
             /\ err[w] = ServiceError("add_file")
             /\ session[w] = "none"
             /\ Count(w, "ImportStreamer.close") = n
        /\ Len(timelines) = n - 1
        /\ \A i \in 1..n - 1 :
             timelines[i] = [sketch |-> sketch[w].id,
                             name |-> TimelineName(task_config[w], input_files[w][i]),
                             path |-> input_files[w][i].path]

C12_Witness ==
  /\ task["w1"] = "upload"
  /\ pc["w1"] = "raised"
  /\ Made("w1", "add_file", "raised")
  /\ FailedFile("w1") = 2
  /\ Len(timelines) = 1
  /\ session["w1"] = "none"

\* The unset required variables up to the i-th, in the order of lines 173-178,
\* separated by ", ".
RECURSIVE Enumerated(_)
Enumerated(i) ==
  IF i = 0 THEN ""
  ELSE IF environ[EnvVars[i]] # "" THEN Enumerated(i - 1)
  ELSE IF \E j \in 1..i - 1 : environ[EnvVars[j]] = ""
       THEN Enumerated(i - 1) \o ", " \o EnvVars[i]
       ELSE EnvVars[i]
Unconfigured == \E i \in 1..Len(EnvVars) : environ[EnvVars[i]] = ""

\* C13: if any of the four required environment variables is unset or empty,
\* upload fails with a ValueError that lists every missing variable, and it
\* makes no call at all: no API client, no lock, no lookup or creation, no ACL
\* change, no import.
C13_MissingEnvFailsFirst ==
  \A w \in Workers :
    (task[w] = "upload" /\ Unconfigured) =>
      /\ pc[w] \in {"idle", "raised"}
      /\ calls[w] = <<>>
      /\ \A n \in LockNames : ~Holds(w, n)
      /\ created = {} /\ public = {} /\ timelines = <<>>
      /\ session[w] = "none"
      /\ result[w] = NoResult
      /\ pc[w] = "raised" =>
           /\ err[w].type = "ValueError"
           /\ Mentions(err[w], Enumerated(Len(EnvVars)))

C13_Witness ==
  /\ task["w1"] = "upload"
  /\ pc["w1"] = "raised"
  /\ environ["TIMESKETCH_SERVER_URL"] # ""
  /\ environ["TIMESKETCH_SERVER_PUBLIC_URL"] = ""
  /\ environ["TIMESKETCH_USERNAME"] # ""
  /\ environ["TIMESKETCH_PASSWORD"] = ""
  /\ Mentions(err["w1"], "TIMESKETCH_SERVER_PUBLIC_URL, TIMESKETCH_PASSWORD")

\* The calls of worker w to the sketch service and the lock, in order.
ResolverOps == {"get_sketch", "create_sketch", "lock.acquire", "list_sketches", "lock.release"}
ResolverCalls(w) == SelectSeq(calls[w], LAMBDA c : c.op \in ResolverOps)
Entered(w) == pc[w] \notin {"idle", "get", "create_named", "acquire"}

\* C14: in upload, a sketch_id in task_config selects the get-by-id branch
\* whatever sketch_name is (no creation, no lock); a sketch_name alone selects
\* creation by that name; neither selects the locked default-name branch for
\* "openrelik-workflow-" + workflow_id.  One branch only is taken.
C14_UploadSelectsOneBranch ==
  \A w \in Workers :
    (task[w] = "upload" /\ ~Unconfigured /\ pc[w] # "idle") =>
      LET c == task_config[w]
          r == ResolverCalls(w)
      IN
        /\ c.sketch_id # NoText =>
             /\ Ops(w) \cap ResolverOps \subseteq {"get_sketch"}
             /\ Len(r) <= 1
             /\ Entered(w) /\ "TimesketchApi" \in Ops(w) /\ ~Made(w, "TimesketchApi", "raised")
                  => /\ Len(r) = 1
                     /\ r[1].id = ParseInt(c.sketch_id)
             /\ \A n \in LockNames : ~Holds(w, n)
             /\ \A s \in created : s.by # w
        /\ (c.sketch_id = NoText /\ c.sketch_name # NoName) =>
             /\ Ops(w) \cap ResolverOps \subseteq {"create_sketch"}
             /\ Len(r) <= 1
             /\ Entered(w) /\ ~Made(w, "TimesketchApi", "raised")
                  => /\ Len(r) = 1
                     /\ r[1].name = c.sketch_name
             /\ \A n \in LockNames : ~Holds(w, n)
        /\ (c.sketch_id = NoText /\ c.sketch_name = NoName) =>
             /\ "get_sketch" \notin Ops(w)
             /\ \A i \in 1..Len(r) :
                  /\ r[i].op = "lock.acquire" <=> i = 1
                  /\ r[i].op \in {"lock.acquire", "lock.release", "create_sketch"}
                       => r[i].name = "openrelik-workflow-" \o workflow_id[w]
             /\ Entered(w) /\ ~Made(w, "TimesketchApi", "raised") => Len(r) >= 1

C14_Witness ==
  /\ task["w1"] = "upload"
  /\ task_config["w1"].sketch_id = <<"1">>
  /\ task_config["w1"].sketch_name = "Case42"
  /\ pc["w1"] = "done"
  /\ Made("w1", "get_sketch", "ok")

\* C15: on the default-name path the lock a worker asks for, holds and
\* releases is the one named "openrelik-workflow-" + workflow_id; so a worker
\* is never kept waiting by the worker of another workflow and never gets a
\* LockError because of it.
C15_WorkflowsDoNotContend ==
  \A w \in Workers :
    LET key == "openrelik-workflow-" \o args[w].workflow_id IN
      /\ \A i \in 1..Len(calls[w]) :
           calls[w][i].op \in {"lock.acquire", "lock.release"} => calls[w][i].name = key
      /\ \A n \in LockNames : Holds(w, n) => n = key
      /\ \A v \in Workers \ {w} :
           args[v].workflow_id # args[w].workflow_id =>
             /\ pc[w] = "acquire" => CanAcquire(name[w])
             /\ ~Made(w, "lock.acquire", "raised")
             /\ err[w] # LockError

C15_Witness ==
  /\ args["w1"].workflow_id = "7"
  /\ args["w2"].workflow_id = "8"
  /\ lock["openrelik-workflow-7"].holder = "w1"
  /\ lock["openrelik-workflow-8"].holder = "w2"
  /\ pc["w1"] = "create_default"
  /\ pc["w2"] = "create_default"

\* A worker is inside the block of lines 69-77: listing, or about to create.
InBlock(w) == pc[w] \in {"list", "create_default"}

\* C16: as the lease (60) is longer than the longest wait (5), no worker that
\* began to wait for a held lock gets the lock while the worker that held it
\* is still inside its list-then-create block.
C16_NoAcquireThroughExpiry ==
  [][\A w \in Workers :
       (pc[w] = "acquire" /\ arrival[w] > 0 /\ pc'[w] = "list") =>
         ~\E v \in Workers \ {w} : InBlock(v) /\ name[v] = name[w]]_vars

\* C17: on the default-name path a worker that keeps running ends its call of
\* get_or_create_sketch, with a sketch or with an error, even when the other
\* worker took the same lock and stalls or dies without releasing it: the wait
\* ends after 5 and the lease after 60.
C17_CallEventuallyFinishes == <>Finished("w1")

C17_Witness ==
  /\ Finished("w1")
  /\ Made("w1", "lock.acquire", "raised")
  /\ lock["openrelik-workflow-7"].holder = "w2"
  /\ InBlock("w2")

ImportOps == <<"ImportStreamer", "add_file", "ImportStreamer.close">>
ImportCalls(w) == SelectSeq(calls[w], LAMBDA c : \E k \in 1..Len(ImportOps) : c.op = ImportOps[k])
Before(w, ops1, ops2) ==
  \A i, j \in 1..Len(calls[w]) :
    (calls[w][i].op \in ops1 /\ calls[w][j].op \in ops2) => i < j

\* C19: within one upload the sketch is resolved once, then the ACL is set,
\* then the files are imported one at a time in the order given, each session
\* closed before the next is opened; no session is opened before a sketch was
\* resolved and the ACL step ended without error.
C19_UploadOrder ==
  \A w \in Workers :
    task[w] = "upload" =>
      LET m == ImportCalls(w) IN
        /\ Before(w, {"TimesketchApi"}, ResolverOps)
        /\ Before(w, ResolverOps, {"add_to_acl"})
        /\ Before(w, {"add_to_acl"}, {ImportOps[k] : k \in 1..Len(ImportOps)})
        /\ "add_to_acl" \in Ops(w) =>
             /\ TruthySketch(sketch[w])
             /\ ById(w) => Count(w, "get_sketch") = 1
             /\ ByName(w) => Count(w, "create_sketch") = 1
             /\ ByDefault(w) => /\ Count(w, "lock.acquire") = 1
                                /\ Count(w, "list_sketches") = 1
                                /\ Count(w, "lock.release") = 1
        /\ m # <<>> =>
             /\ TruthySketch(sketch[w])
             /\ ~Made(w, "add_to_acl", "raised")
             /\ MakeSketchPublic(task_config[w]) =>
                  /\ Made(w, "add_to_acl", "ok")
                  /\ sketch[w].id \in public
        /\ \A k \in 1..Len(m) :
             /\ m[k].op = ImportOps[((k - 1) % 3) + 1]
             /\ m[k].id = ((k - 1) \div 3) + 1
             /\ m[k].op = "add_file" => m[k].name = input_files[w][m[k].id].path
        /\ session[w] = "open" <=> Len(m) % 3 # 0
        /\ pc[w] = "done" => Len(m) = 3 * Len(input_files[w])

C19_Witness ==
  /\ task["w1"] = "upload"
  /\ pc["w1"] = "done"
  /\ Len(input_files["w1"]) = 2
  /\ Count("w1", "ImportStreamer.close") = 2
  /\ Made("w1", "list_sketches", "ok")

\* C20: one upload repeats nothing: at most one attempt to acquire the lock,
\* one get_sketch, one list_sketches, one create_sketch, one add_to_acl, and
\* each input file is submitted at most once.
C20_NothingRepeated ==
  \A w \in Workers :
    task[w] = "upload" =>
      /\ \A op \in {"lock.acquire", "get_sketch", "list_sketches", "create_sketch",
                    "add_to_acl"} : Count(w, op) <= 1
      /\ \A f \in 1..Len(input_files[w]) :
           Cardinality({i \in 1..Len(calls[w]) :
                          calls[w][i].op = "add_file" /\ calls[w][i].id = f}) <= 1

====
